---- MODULE Spec2Model ----
(***************************************************************************)
(* Momentum stock screener (screener.py): the analytics pipeline           *)
(*   compute_indicators -> apply_gatekeeper -> rank_and_select             *)
(* as run by run_screener, api.py and app.py.                              *)
(*                                                                         *)
(* Numbers.  The code computes in IEEE doubles with NaN as the marker of   *)
(* a missing value.  A value is modelled as an exact fraction <<n, d>>     *)
(* in lowest terms with d > 0; NaN is <<0, 0>>.  Every comparison with a   *)
(* NaN operand is false and every arithmetic result with a NaN operand is  *)
(* NaN, as in the code.  Rounding error of the doubles is not modelled.    *)
(*                                                                         *)
(* Strings.  A rejection-reason string is modelled as the sequence of its  *)
(* pieces (clauses and "; " separators); the empty string is <<>>.         *)
(***************************************************************************)
EXTENDS Integers, Sequences, FiniteSets, TLC

(***************************************************************************)
(* Bounds of the model.                                                    *)
(***************************************************************************)
MaxTickers == 3
MaxTopN == 3
\* records of a hand-built frame given to apply_gatekeeper
MaxGateRows == 2
\* records of a hand-built shortlist given to rank_and_select
MaxShortlist == 3
\* adjusted closes beyond 300 in price rows
MaxExtraRows == 1
\* latest adjusted closes that differ from the ones before them
MaxVarying == 1

(***************************************************************************)
(* Program constants (screener.py:44-53).                                  *)
(***************************************************************************)
TRADING_DAYS_6M == 126
TRADING_DAYS_9M == 189
TRADING_DAYS_12M == 252
MIN_TRADING_DAYS_REQUIRED == 300

(***************************************************************************)
(* Exact arithmetic standing for the doubles.                              *)
(***************************************************************************)
NaN == <<0, 0>>

IsNaN(x) == x[2] = 0

Abs(n) == IF n < 0 THEN -n ELSE n

RECURSIVE GCD(_, _)
GCD(a, b) == IF b = 0 THEN a ELSE GCD(b, a % b)

\* the fraction n/d in lowest terms, d # 0
Rat(n, d) ==
    LET g == GCD(Abs(n), Abs(d))
        s == IF d < 0 THEN -1 ELSE 1
    IN  <<(s * n) \div g, (s * d) \div g>>

Num(k) == <<k, 1>>

FSub(a, b) ==
    IF IsNaN(a) \/ IsNaN(b) THEN NaN
    ELSE Rat(a[1] * b[2] - b[1] * a[2], a[2] * b[2])

FAdd(a, b) ==
    IF IsNaN(a) \/ IsNaN(b) THEN NaN
    ELSE Rat(a[1] * b[2] + b[1] * a[2], a[2] * b[2])

FMul(a, b) ==
    IF IsNaN(a) \/ IsNaN(b) THEN NaN
    ELSE Rat(a[1] * b[1], a[2] * b[2])

\* a / b; the divisors of the code are prices, which are positive, or are
\* guarded against zero, so only 0/0 = NaN is kept of the division by zero
FDiv(a, b) ==
    IF IsNaN(a) \/ IsNaN(b) \/ b[1] = 0 THEN NaN
    ELSE Rat(a[1] * b[2], a[2] * b[1])

\* comparisons: false as soon as an operand is NaN
FGe(a, b) == ~IsNaN(a) /\ ~IsNaN(b) /\ a[1] * b[2] >= b[1] * a[2]

FGt(a, b) == ~IsNaN(a) /\ ~IsNaN(b) /\ a[1] * b[2] > b[1] * a[2]

FNe(a, b) == IsNaN(a) \/ IsNaN(b) \/ a # b

\* pd.notna
NotNa(x) == ~IsNaN(x)

PROXIMITY_TO_HIGH_THRESHOLD == Rat(3, 4)
UP_DAYS_PCT_THRESHOLD == Num(40)
ONE_YEAR_RETURN_THRESHOLD == Rat(13, 2)

\* the value cut down to a multiple of 1/scale instead of rounded
Fmt_floor(v, scale) ==
    IF IsNaN(v) THEN NaN
    ELSE LET fl == (v[1] * scale) \div v[2]
         IN  Rat(fl, scale)

\* format(v, ".kf") with scale = 10^k: the value rounded half-even to a
\* multiple of 1/scale; "nan" for NaN
Fmt(v, scale) ==
    IF IsNaN(v) THEN NaN
    ELSE LET fl    == (v[1] * scale) \div v[2]
             twice == 2 * (v[1] * scale) - 2 * fl * v[2]
             r     == IF twice > v[2] THEN fl + 1
                      ELSE IF twice < v[2] THEN fl
                      ELSE IF fl % 2 = 0 THEN fl ELSE fl + 1
         IN  Rat(r, scale)

(***************************************************************************)
(* Price history of one ticker, as compute_indicators reads it.  The       *)
(* series itself is input from the fetch layer; a series is given by the   *)
(* values the code takes from it:                                          *)
(*   raises        the per-ticker block raises (malformed series)          *)
(*   trading_days  len(ticker_df)                                          *)
(*   n_adj         len(adj_close) after dropna                             *)
(*   n_close       len(close) after dropna                                 *)
(*   last          adj_close.iloc[-1]                                      *)
(*   ewm100/200    adj_close.ewm(span, adjust=False).mean().iloc[-1]       *)
(*   rolling_max   adj_close.rolling(252).max().iloc[-1]                   *)
(*   series_max    adj_close.max()                                         *)
(*   up_days       (close.iloc[-126:].diff() > 0).sum()                    *)
(*   iloc_126/189/252   adj_close.iloc[-126], [-189], [-252]               *)
(* Prices are positive, the maxima are at least the prices they cover and  *)
(* n_adj, n_close <= trading_days.                                         *)
(***************************************************************************)
Series(e100, e200, high, nclose, up, p6, p9, p12) ==
    [raises |-> FALSE, trading_days |-> 300, n_adj |-> 300, n_close |-> nclose,
     last |-> Num(213), ewm100 |-> Num(e100), ewm200 |-> Num(e200),
     rolling_max |-> Num(high), series_max |-> Num(high), up_days |-> up,
     iloc_126 |-> p6, iloc_189 |-> p9, iloc_252 |-> p12]

\* passes every gate under both formulas, each of A, B, D(standard) with equality
SeriesP1 == Series(213, 213, 284, 300, 51, Num(150), Num(100), Num(200))
SeriesP2 == Series(200, 190, 213, 300, 60, Num(100), Num(150), Num(150))
SeriesP3 == Series(200, 190, 213, 300, 60, Num(200), Num(200), Num(100))
\* fail exactly one gate (A by ema100 < ema200, B, C at exactly 40.0)
SeriesFA2 == Series(200, 201, 213, 300, 60, Num(150), Num(150), Num(150))
SeriesFB == Series(200, 190, 285, 300, 60, Num(150), Num(150), Num(150))
SeriesFC == Series(200, 190, 213, 300, 50, Num(150), Num(150), Num(150))
\* fewer than 126 closes: up_days_pct_6m is NaN
SeriesFCn == Series(200, 190, 213, 125, 0, Num(150), Num(150), Num(150))
\* gate D differs between the formulas
SeriesFD == Series(200, 190, 213, 300, 60, Num(150), Num(150), Num(201))
SeriesFD1 == Series(200, 190, 213, 300, 60, Num(150), Num(150), Num(1))
\* price below ema100, gates B and C failed, standard return negative and
\* unconventional return exactly 6.5 (13 / (201 - 1) * 100)
SeriesU == [Series(150, 100, 201, 300, 50, Num(150), Num(150), Num(201))
              EXCEPT !.last = Num(13)]
\* 299 adjusted closes in 300 rows
SeriesShort == [Series(200, 190, 213, 300, 60, Num(150), Num(150), Num(150))
                  EXCEPT !.n_adj = 299]
SeriesBad == [Series(200, 190, 213, 300, 60, Num(150), Num(150), Num(150))
                EXCEPT !.raises = TRUE]

SeriesSet ==
    {SeriesP1, SeriesP2, SeriesP3, SeriesFA2, SeriesFB, SeriesFC, SeriesFCn,
     SeriesFD, SeriesFD1, SeriesU, SeriesShort, SeriesBad}

(***************************************************************************)
(* Pieces of the rejection-reason strings.                                 *)
(***************************************************************************)
Piece(t) == [text |-> t]

PieceV(t, v) == [text |-> t, value |-> v]

Sep == Piece("; ")

InsufficientReason == <<Piece("Insufficient data (< 300 trading days)")>>

ErrorReason == <<Piece("Error: "), Piece("str(e)")>>

\* the proximity flag with > in place of >=
Within25PctHigh_strict(current_price, high_52w) ==
    FGt(current_price, FMul(PROXIMITY_TO_HIGH_THRESHOLD, high_52w))

\* within_25_pct_high of compute_indicators
Within25PctHigh(current_price, high_52w) ==
    FGe(current_price, FMul(PROXIMITY_TO_HIGH_THRESHOLD, high_52w))

\* the standard formula in the place of the unconventional one
OneYearReturnUnconventional_standard(current_price, price_12m_ago) ==
    IF NotNa(price_12m_ago)
    THEN FMul(FSub(FDiv(current_price, price_12m_ago), Num(1)), Num(100))
    ELSE NaN

\* one_year_return_unconventional of compute_indicators
OneYearReturnUnconventional(current_price, price_12m_ago) ==
    IF NotNa(price_12m_ago) /\ FNe(FSub(price_12m_ago, Num(1)), Num(0))
    THEN FMul(FDiv(current_price, FSub(price_12m_ago, Num(1))), Num(100))
    ELSE NaN

(***************************************************************************)
(* compute_indicators: the body of the loop over the tickers, for one      *)
(* ticker and its series s.                                                *)
(***************************************************************************)
IndicatorRow(ticker, s) ==
    IF s.raises
    THEN [ticker |-> ticker, trading_days |-> 0, data_sufficient |-> FALSE,
          rejection_reasons |-> ErrorReason]
    ELSE IF s.n_adj < MIN_TRADING_DAYS_REQUIRED
    THEN [ticker |-> ticker, trading_days |-> s.trading_days,
          data_sufficient |-> FALSE,
          rejection_reasons |-> InsufficientReason]
    ELSE
    LET trading_days == s.trading_days
        data_sufficient == trading_days >= MIN_TRADING_DAYS_REQUIRED
        current_price == s.last
        ema100 == s.ewm100
        ema200 == s.ewm200
        high_52w == IF s.n_adj >= TRADING_DAYS_12M THEN s.rolling_max
                    ELSE s.series_max
        within_25_pct_high == Within25PctHigh(current_price, high_52w)
        up_days_pct_6m ==
            IF s.n_close >= TRADING_DAYS_6M
            THEN FMul(FDiv(Num(s.up_days), Num(TRADING_DAYS_6M - 1)), Num(100))
            ELSE NaN
        price_6m_ago == IF s.n_adj >= TRADING_DAYS_6M THEN s.iloc_126 ELSE NaN
        price_9m_ago == IF s.n_adj >= TRADING_DAYS_9M THEN s.iloc_189 ELSE NaN
        price_12m_ago == IF s.n_adj >= TRADING_DAYS_12M THEN s.iloc_252 ELSE NaN
        Ret(p) == IF NotNa(p)
                  THEN FMul(FSub(FDiv(current_price, p), Num(1)), Num(100))
                  ELSE NaN
        return_6m == Ret(price_6m_ago)
        return_9m == Ret(price_9m_ago)
        return_12m == Ret(price_12m_ago)
        one_year_return_standard == return_12m
        one_year_return_unconventional ==
            OneYearReturnUnconventional(current_price, price_12m_ago)
    IN  [ticker |-> ticker,
         current_price |-> current_price,
         ema100 |-> ema100,
         ema200 |-> ema200,
         high_52w |-> high_52w,
         within_25_pct_high |-> within_25_pct_high,
         up_days_pct_6m |-> up_days_pct_6m,
         one_year_return_unconventional |-> one_year_return_unconventional,
         one_year_return_standard |-> one_year_return_standard,
         return_6m |-> return_6m,
         return_9m |-> return_9m,
         return_12m |-> return_12m,
         price_6m_ago |-> price_6m_ago,
         price_9m_ago |-> price_9m_ago,
         price_12m_ago |-> price_12m_ago,
         trading_days |-> trading_days,
         data_sufficient |-> data_sufficient,
         rejection_reasons |-> <<>>]

(***************************************************************************)
(* apply_gatekeeper.  A DataFrame is the sequence of its rows; a row that  *)
(* lacks a column holds NaN there, which is modelled by the row not having *)
(* the field.                                                              *)
(***************************************************************************)
GateCols ==
    {"gate_A_trend", "gate_B_proximity", "gate_C_consistency",
     "gate_D_performance", "gate_pass"}

\* df[col] = value for the rows of a DataFrame, column by column
SetCols(row, new) ==
    [f \in (DOMAIN row) \cup (DOMAIN new) |->
        IF f \in DOMAIN new THEN new[f] ELSE row[f]]

ValidMask(row) == row.data_sufficient = TRUE

\* GateA with strict comparisons
GateA_strict(row) ==
    FGt(row.current_price, row.ema100) /\ FGt(row.ema100, row.ema200)

\* GateA without the comparison of the two averages
GateA_priceOnly(row) == FGe(row.current_price, row.ema100)

GateA(row) ==
    FGe(row.current_price, row.ema100) /\ FGe(row.ema100, row.ema200)

GateB(row) == row.within_25_pct_high

\* GateC with >= in place of >
GateC_ge(row) == FGe(row.up_days_pct_6m, UP_DAYS_PCT_THRESHOLD)

GateC(row) == FGt(row.up_days_pct_6m, UP_DAYS_PCT_THRESHOLD)

ReturnCol(use_standard) ==
    IF use_standard THEN "one_year_return_standard"
    ELSE "one_year_return_unconventional"

\* GateD with a strict comparison
GateD_strict(row, use_standard) ==
    FGt(row[ReturnCol(use_standard)], ONE_YEAR_RETURN_THRESHOLD)

GateD(row, use_standard) ==
    FGe(row[ReturnCol(use_standard)], ONE_YEAR_RETURN_THRESHOLD)

\* GatePass without the performance gate
GatePass_noD(a, b, c, d) == a /\ b /\ c

GatePass(a, b, c, d) == a /\ b /\ c /\ d

\* the clauses put together without the separator
Join_noSep(reasons) == reasons

\* "; ".join(reasons)
RECURSIVE Join(_)
Join(reasons) ==
    IF Len(reasons) = 0 THEN <<>>
    ELSE IF Len(reasons) = 1 THEN <<reasons[1]>>
    ELSE <<reasons[1], Sep>> \o Join(Tail(reasons))

\* the default put in place of every reason
ReasonOrDefault_always(row) == <<Piece("Insufficient data")>>

\* row.get("rejection_reasons", "") or "Insufficient data"
ReasonOrDefault(row) ==
    IF "rejection_reasons" \in DOMAIN row /\ row.rejection_reasons # <<>>
    THEN row.rejection_reasons
    ELSE <<Piece("Insufficient data")>>

BuildRejectionReasons(row, use_standard) ==
    IF ~row.data_sufficient THEN ReasonOrDefault(row)
    ELSE
    LET ra == IF ~row.gate_A_trend
              THEN <<Piece("Failed Trend Alignment (price < EMA100 or EMA100 < EMA200)")>>
              ELSE <<>>
        rb == IF ~row.gate_B_proximity
              THEN <<Piece("Failed Proximity to High (price < 75% of 52w high)")>>
              ELSE <<>>
        rc == IF ~row.gate_C_consistency
              THEN <<PieceV("Failed Consistency (up_days={:.1f}% <= 40%)",
                            Fmt(row.up_days_pct_6m, 10))>>
              ELSE <<>>
        rd == IF ~row.gate_D_performance
              THEN <<[text |-> "Failed Performance ({return_col}={:.2f}% < 6.5%)",
                      col |-> ReturnCol(use_standard),
                      value |-> Fmt(row[ReturnCol(use_standard)], 100)]>>
              ELSE <<>>
    IN  Join(ra \o rb \o rc \o rd)

\* the gate columns initialised to True instead of False
GateRow_initTrue(row, use_standard) ==
    LET valid == ValidMask(row)
        a == ~valid \/ GateA(row)
        b == ~valid \/ GateB(row)
        c == ~valid \/ GateC(row)
        d == ~valid \/ GateD(row, use_standard)
    IN  SetCols(row, [gate_A_trend |-> a, gate_B_proximity |-> b,
                      gate_C_consistency |-> c, gate_D_performance |-> d,
                      gate_pass |-> ~valid \/ GatePass(a, b, c, d)])

\* the gate columns of one row: False, then the gates on the valid rows
GateRow(row, use_standard) ==
    LET valid == ValidMask(row)
        a == valid /\ GateA(row)
        b == valid /\ GateB(row)
        c == valid /\ GateC(row)
        d == valid /\ GateD(row, use_standard)
    IN  SetCols(row, [gate_A_trend |-> a, gate_B_proximity |-> b,
                      gate_C_consistency |-> c, gate_D_performance |-> d,
                      gate_pass |-> valid /\ GatePass(a, b, c, d)])

\* the early return when no row has sufficient data
NoValidRow(row) ==
    SetCols(row, [gate_A_trend |-> FALSE, gate_B_proximity |-> FALSE,
                  gate_C_consistency |-> FALSE, gate_D_performance |-> FALSE,
                  gate_pass |-> FALSE,
                  rejection_reasons |-> ReasonOrDefault(row)])

IsPass(row) == row.gate_pass

\* the rejected set taken among the sufficient rows only
IsReject_sufficientOnly(row) == ~row.gate_pass /\ row.data_sufficient

IsReject(row) == ~row.gate_pass

\* the local frame df once the gate columns and the reasons are set
GatedFrame(df_indicators, use_standard) ==
    IF \A i \in 1..Len(df_indicators) : ~ValidMask(df_indicators[i])
    THEN [i \in 1..Len(df_indicators) |-> NoValidRow(df_indicators[i])]
    ELSE LET gated == [i \in 1..Len(df_indicators) |->
                          GateRow(df_indicators[i], use_standard)]
         IN  [i \in 1..Len(gated) |->
                SetCols(gated[i],
                        [rejection_reasons |->
                            BuildRejectionReasons(gated[i], use_standard)])]

\* the pair (shortlist_df, rejected_df)
ApplyGatekeeper(df_indicators, use_standard) ==
    LET df == GatedFrame(df_indicators, use_standard)
    IN  <<SelectSeq(df, IsPass), SelectSeq(df, IsReject)>>

\* the columns set on the caller's frame itself, without the copy
GatekeeperInputAfter_noCopy(df_indicators, use_standard) ==
    GatedFrame(df_indicators, use_standard)

\* the caller's frame once apply_gatekeeper has returned: the columns are set
\* on df = df_indicators.copy()
GatekeeperInputAfter(df_indicators, use_standard) == df_indicators

(***************************************************************************)
(* rank_and_select.                                                        *)
(***************************************************************************)
\* rank(method="max"): ties share the higher rank number
RankMin_max(df, col, i) ==
    IF IsNaN(df[i][col]) THEN NaN
    ELSE Num(Cardinality({j \in 1..Len(df) : FGe(df[j][col], df[i][col])}))

\* rank(ascending=True): the lowest return gets rank 1
RankMin_ascending(df, col, i) ==
    IF IsNaN(df[i][col]) THEN NaN
    ELSE Num(1 + Cardinality({j \in 1..Len(df) : FGt(df[i][col], df[j][col])}))

\* Series.rank(method="min", ascending=False): NaN keeps NaN
RankMin(df, col, i) ==
    IF IsNaN(df[i][col]) THEN NaN
    ELSE Num(1 + Cardinality({j \in 1..Len(df) : FGt(df[j][col], df[i][col])}))

\* RankRow with final_rank = rank_12m alone
RankRow_only12(df, i) ==
    LET rank_6m == RankMin(df, "return_6m", i)
        rank_9m == RankMin(df, "return_9m", i)
        rank_12m == RankMin(df, "return_12m", i)
    IN  SetCols(df[i],
                [rank_6m |-> rank_6m, rank_9m |-> rank_9m, rank_12m |-> rank_12m,
                 final_rank |-> rank_12m])

\* RankRow with rank_9m at weight 1
RankRow_w9(df, i) ==
    LET rank_6m == RankMin(df, "return_6m", i)
        rank_9m == RankMin(df, "return_9m", i)
        rank_12m == RankMin(df, "return_12m", i)
    IN  SetCols(df[i],
                [rank_6m |-> rank_6m, rank_9m |-> rank_9m, rank_12m |-> rank_12m,
                 final_rank |-> FAdd(FAdd(rank_6m, rank_12m), rank_9m)])

RankRow(df, i) ==
    LET rank_6m == RankMin(df, "return_6m", i)
        rank_9m == RankMin(df, "return_9m", i)
        rank_12m == RankMin(df, "return_12m", i)
    IN  SetCols(df[i],
                [rank_6m |-> rank_6m, rank_9m |-> rank_9m, rank_12m |-> rank_12m,
                 final_rank |-> FAdd(FAdd(rank_6m, rank_12m),
                                     FMul(Num(0), rank_9m))])

\* order of one sort key, NaN last: -1 if x sorts before y, 1 after, 0 tie
KeyCmp(x, y, ascending) ==
    IF IsNaN(x) /\ IsNaN(y) THEN 0
    ELSE IF IsNaN(x) THEN 1
    ELSE IF IsNaN(y) THEN -1
    ELSE IF x = y THEN 0
    ELSE IF FGt(y, x) = ascending THEN -1 ELSE 1

\* the sort by final_rank alone
SortsBefore_noTieBreak(a, b) ==
    KeyCmp(a.final_rank, b.final_rank, TRUE) = -1

\* by=["final_rank", "return_12m", "return_6m"], ascending=[True, False, False]
SortsBefore(a, b) ==
    LET c1 == KeyCmp(a.final_rank, b.final_rank, TRUE)
        c2 == KeyCmp(a.return_12m, b.return_12m, FALSE)
        c3 == KeyCmp(a.return_6m, b.return_6m, FALSE)
    IN  \/ c1 = -1
        \/ c1 = 0 /\ c2 = -1
        \/ c1 = 0 /\ c2 = 0 /\ c3 = -1

\* x put before the rows it ties with (a sort that is not stable)
InsertRow_unstable(sorted, x) ==
    LET later == {i \in 1..Len(sorted) : ~SortsBefore(sorted[i], x)}
        k == IF later = {} THEN Len(sorted) + 1
             ELSE CHOOSE i \in later : \A j \in later : i <= j
    IN  SubSeq(sorted, 1, k - 1) \o <<x>> \o SubSeq(sorted, k, Len(sorted))

\* x put after every row that does not sort after it (the sort is stable)
InsertRow(sorted, x) ==
    LET later == {i \in 1..Len(sorted) : SortsBefore(x, sorted[i])}
        k == IF later = {} THEN Len(sorted) + 1
             ELSE CHOOSE i \in later : \A j \in later : i <= j
    IN  SubSeq(sorted, 1, k - 1) \o <<x>> \o SubSeq(sorted, k, Len(sorted))

RECURSIVE SortValues(_)
SortValues(df) ==
    IF Len(df) = 0 THEN <<>>
    ELSE InsertRow(SortValues(SubSeq(df, 1, Len(df) - 1)), df[Len(df)])

\* DataFrame.head(n): the first n rows; all but the last -n for negative n
DfHead(df, n) ==
    IF n >= 0 THEN SubSeq(df, 1, IF n < Len(df) THEN n ELSE Len(df))
    ELSE SubSeq(df, 1, Len(df) + n)

\* rank_and_select without the early return of an empty frame: the rank of a
\* column the frame does not have raises
RankAndSelect_emptyRaises(shortlist, n) ==
    IF Len(shortlist) = 0 THEN <<[raised |-> "KeyError: 'return_6m'"]>>
    ELSE LET df == [i \in 1..Len(shortlist) |-> RankRow(shortlist, i)]
         IN  DfHead(SortValues(df), n)

\* the truncation done before the ranking
RankAndSelect_headFirst(shortlist, n) ==
    IF Len(shortlist) = 0 THEN shortlist
    ELSE LET cut == DfHead(shortlist, n)
         IN  SortValues([i \in 1..Len(cut) |-> RankRow(cut, i)])

RankAndSelect(shortlist, n) ==
    IF Len(shortlist) = 0 THEN shortlist
    ELSE LET df == [i \in 1..Len(shortlist) |-> RankRow(shortlist, i)]
         IN  DfHead(SortValues(df), n)

\* the caller's frame once rank_and_select has returned: an empty frame is
\* handed back as it is, otherwise the rank columns are set on
\* df = shortlist_df.copy()
RankInputAfter(shortlist, n) == shortlist

\* results.append(...) of the loop of compute_indicators with the record
\* missing for a ticker whose block raises
AppendResult_skipRaise(results, ticker, s) ==
    IF s.raises THEN results
    ELSE Append(results, IndicatorRow(ticker, s))

\* results.append(...) of the loop of compute_indicators: one record for the
\* ticker on every path (insufficient, computed, except)
AppendResult(results, ticker, s) ==
    Append(results, IndicatorRow(ticker, s))

\* compute_indicators on a whole batch, a sequence of [ticker, series]
RECURSIVE ComputeIndicators(_)
ComputeIndicators(batch) ==
    IF Len(batch) = 0 THEN <<>>
    ELSE AppendResult(ComputeIndicators(SubSeq(batch, 1, Len(batch) - 1)),
                      batch[Len(batch)].ticker, batch[Len(batch)].series)

(***************************************************************************)
(* The pipeline of run_screener: one record per ticker, then the gates,    *)
(* then the ranking; the ranking may be applied again to its own result.   *)
(* price_data is the part of the batch the loop of compute_indicators has  *)
(* gone through, a sequence of [ticker, series].                           *)
(***************************************************************************)
VARIABLES pc, price_data, df_indicators, use_standard_one_year_return,
          shortlist_df, rejected_df, top_n, result_df, reranked_df

vars == <<pc, price_data, df_indicators, use_standard_one_year_return,
          shortlist_df, rejected_df, top_n, result_df, reranked_df>>

TopNs == (-1)..MaxTopN

Init ==
    /\ pc = "compute"
    /\ price_data = <<>>
    /\ df_indicators = <<>>
    /\ use_standard_one_year_return = FALSE
    /\ shortlist_df = <<>>
    /\ rejected_df = <<>>
    /\ top_n = 0
    /\ result_df = <<>>
    /\ reranked_df = <<>>

\* one iteration of the loop of compute_indicators
ComputeTicker ==
    /\ pc = "compute"
    /\ Len(price_data) < MaxTickers
    /\ \E s \in SeriesSet :
         LET ticker == Len(price_data) + 1
         IN  /\ price_data' = Append(price_data, [ticker |-> ticker, series |-> s])
             /\ df_indicators' = AppendResult(df_indicators, ticker, s)
    /\ UNCHANGED <<pc, use_standard_one_year_return, shortlist_df, rejected_df,
                   top_n, result_df, reranked_df>>

\* run_screener step 4, on the records of all the tickers fetched
Gatekeeper ==
    /\ pc = "compute"
    /\ Len(df_indicators) >= 1
    /\ \E std \in BOOLEAN :
         LET out == ApplyGatekeeper(df_indicators, std)
         IN  /\ use_standard_one_year_return' = std
             /\ shortlist_df' = out[1]
             /\ rejected_df' = out[2]
             /\ df_indicators' = GatekeeperInputAfter(df_indicators, std)
    /\ pc' = "gated"
    /\ UNCHANGED <<price_data, top_n, result_df, reranked_df>>

\* run_screener step 5
Rank ==
    /\ pc = "gated"
    /\ \E n \in TopNs :
         /\ top_n' = n
         /\ result_df' = RankAndSelect(shortlist_df, n)
         /\ shortlist_df' = RankInputAfter(shortlist_df, n)
    /\ pc' = "ranked"
    /\ UNCHANGED <<price_data, df_indicators, use_standard_one_year_return,
                   rejected_df, reranked_df>>

\* rank_and_select applied to its own output with the same top_n, by a
\* caller that ranks a frame only if it has records (if len(shortlist) > 0)
RankAgain ==
    /\ pc = "ranked"
    /\ Len(result_df) >= 1
    /\ reranked_df' = RankAndSelect(result_df, top_n)
    /\ result_df' = RankInputAfter(result_df, top_n)
    /\ pc' = "reranked"
    /\ UNCHANGED <<price_data, df_indicators, use_standard_one_year_return,
                   shortlist_df, rejected_df, top_n>>

Next == ComputeTicker \/ Gatekeeper \/ Rank \/ RankAgain

Spec == Init /\ [][Next]_vars

(***************************************************************************)
(* Properties.                                                             *)
(***************************************************************************)
Rows(df) == {df[i] : i \in 1..Len(df)}

\* apply_gatekeeper has returned; its outputs are not touched afterwards
Gated == pc = "gated"

\* rank_and_select has returned; its output is not touched afterwards
Ranked == pc = "ranked"

GatedRows == Rows(shortlist_df) \cup Rows(rejected_df)

SelectedReturn(row) ==
    IF use_standard_one_year_return THEN row.one_year_return_standard
    ELSE row.one_year_return_unconventional

Min(a, b) == IF a < b THEN a ELSE b

C2_InsufficientRejected ==
    Gated =>
      \A i \in 1..Len(df_indicators) :
        ~df_indicators[i].data_sufficient =>
          /\ \A row \in Rows(shortlist_df) :
               row.ticker # df_indicators[i].ticker
          /\ \E row \in Rows(rejected_df) :
               /\ row.ticker = df_indicators[i].ticker
               /\ ~row.data_sufficient
               /\ ~row.gate_A_trend /\ ~row.gate_B_proximity
               /\ ~row.gate_C_consistency /\ ~row.gate_D_performance
               /\ ~row.gate_pass

\* an insufficient record gated together with a passing one
C2_Witness ==
    /\ pc = "gated"
    /\ Len(shortlist_df) >= 1
    /\ \E row \in Rows(rejected_df) : ~row.data_sufficient

\* C3: for a sufficient record gate_pass is the conjunction of the four gate
\* flags, and the passing set holds no record with a failed gate.
C3_PassIsConjunction ==
    Gated =>
      /\ \A row \in GatedRows :
           row.data_sufficient =>
             (row.gate_pass <=>
                (row.gate_A_trend /\ row.gate_B_proximity
                   /\ row.gate_C_consistency /\ row.gate_D_performance))
      /\ \A row \in Rows(shortlist_df) :
           row.gate_A_trend /\ row.gate_B_proximity
             /\ row.gate_C_consistency /\ row.gate_D_performance
      /\ \A row \in Rows(rejected_df) : ~row.gate_pass

\* rejected records that fail gate D alone and gate A alone, next to a
\* passing record
C3_Witness ==
    /\ pc = "gated"
    /\ Len(shortlist_df) >= 1
    /\ \E row \in Rows(rejected_df) :
         row.gate_A_trend /\ row.gate_B_proximity
           /\ row.gate_C_consistency /\ ~row.gate_D_performance
    /\ \E row \in Rows(rejected_df) :
         ~row.gate_A_trend /\ row.gate_B_proximity
           /\ row.gate_C_consistency /\ row.gate_D_performance

\* the list is in the order (final_rank ascending, return_12m descending,
\* return_6m descending)
InRankOrder(df) ==
    \A i, j \in 1..Len(df) :
      i < j =>
        /\ FGe(df[j].final_rank, df[i].final_rank)
        /\ df[i].final_rank = df[j].final_rank =>
             FGe(df[i].return_12m, df[j].return_12m)
        /\ (df[i].final_rank = df[j].final_rank
              /\ df[i].return_12m = df[j].return_12m) =>
             FGe(df[i].return_6m, df[j].return_6m)

\* C4: for a non-empty input and topN >= 1 the result is ordered by
\* final_rank ascending, then return_12m descending, then return_6m descending.
C4_ResultSorted ==
    (Ranked /\ top_n >= 1 /\ Len(shortlist_df) >= 1) => InRankOrder(result_df)

\* a result with two records tied on final_rank and apart on return_12m,
\* given in the other order, and a record of another final_rank
C4_Witness ==
    /\ pc = "ranked"
    /\ top_n >= 1
    /\ \E i, j \in 1..Len(result_df) :
         /\ i < j
         /\ result_df[i].final_rank = result_df[j].final_rank
         /\ result_df[i].return_12m # result_df[j].return_12m
         /\ result_df[i].ticker > result_df[j].ticker
    /\ \E i, j \in 1..Len(result_df) :
         result_df[i].final_rank # result_df[j].final_rank

\* the competition rank of value v in column col over the whole input
RankOver(df, col, v) ==
    Num(1 + Cardinality({j \in 1..Len(df) : FGt(df[j][col], v)}))

C6_TruncationIsPrefix ==
    (Ranked /\ top_n >= 1) =>
      LET m == Min(top_n, Len(shortlist_df))
      IN  /\ Len(result_df) = m
          /\ result_df =
               SubSeq(RankAndSelect(shortlist_df, Len(shortlist_df)), 1, m)

\* a truncation that drops a record which is not last in the input
C6_Witness ==
    /\ pc = "ranked"
    /\ top_n >= 1
    /\ top_n < Len(shortlist_df)
    /\ \E row \in Rows(result_df) :
         row.ticker = shortlist_df[Len(shortlist_df)].ticker

RankCols == {"rank_6m", "rank_9m", "rank_12m", "final_rank"}

DropCols(row, cols) == [f \in (DOMAIN row) \ cols |-> row[f]]

\* C7 as stated: applying rank_and_select again, with the same topN, to its
\* own output gives the same records in the same order with the same ranks.
C7_Idempotent ==
    (pc = "reranked" /\ top_n >= 1) => reranked_df = result_df

\* C7 amended: the second application returns the same list, ranks included,
\* when the first one truncated nothing (topN >= |S|); in every case it
\* returns the same records, as many of them, apart from the rank columns.
C7_IdempotentUntruncated ==
    (pc = "reranked" /\ top_n >= 1) =>
      /\ top_n >= Len(shortlist_df) => reranked_df = result_df
      /\ Len(reranked_df) = Len(result_df)
      /\ {DropCols(row, RankCols) : row \in Rows(reranked_df)} =
           {DropCols(row, RankCols) : row \in Rows(result_df)}

\* an untruncated ranking of records with a tie and with distinct ranks,
\* ranked again
C7_Witness ==
    /\ pc = "reranked"
    /\ top_n >= Len(shortlist_df)
    /\ Len(result_df) >= 3
    /\ \E i, j \in 1..Len(result_df) :
         i # j /\ DropCols(result_df[i], {"ticker"}) = DropCols(result_df[j], {"ticker"})
    /\ \E i, j \in 1..Len(result_df) :
         result_df[i].final_rank # result_df[j].final_rank

\* C8: the passing and the failing set partition the input: every input
\* record is in exactly one of them, the passing set has gate_pass true and
\* the failing set gate_pass false, and every record keeps the values of the
\* indicator columns it came with.
C8_Partition ==
    Gated =>
      /\ Len(shortlist_df) + Len(rejected_df) = Len(df_indicators)
      /\ \A i \in 1..Len(df_indicators) :
           LET in == df_indicators[i]
               outs == {<<k, j>> \in {1, 2} \X (1..Len(df_indicators)) :
                          LET df == IF k = 1 THEN shortlist_df ELSE rejected_df
                          IN  j <= Len(df) /\ df[j].ticker = in.ticker}
           IN  /\ Cardinality(outs) = 1
               /\ \A o \in outs :
                    LET out == IF o[1] = 1 THEN shortlist_df[o[2]]
                               ELSE rejected_df[o[2]]
                    IN  \A f \in (DOMAIN in) \ {"rejection_reasons"} :
                          f \in DOMAIN out /\ out[f] = in[f]
      /\ \A row \in Rows(shortlist_df) : row.gate_pass = TRUE
      /\ \A row \in Rows(rejected_df) : row.gate_pass = FALSE

\* both sets non-empty, the failing one with an insufficient and a
\* sufficient record
C8_Witness ==
    /\ pc = "gated"
    /\ Len(shortlist_df) >= 1
    /\ \E r1, r2 \in Rows(rejected_df) :
         r1.data_sufficient /\ ~r2.data_sufficient /\ r2.trading_days = 300

ClauseGate(piece) ==
    CASE piece.text = "Failed Trend Alignment (price < EMA100 or EMA100 < EMA200)" -> "A"
      [] piece.text = "Failed Proximity to High (price < 75% of 52w high)" -> "B"
      [] piece.text = "Failed Consistency (up_days={:.1f}% <= 40%)" -> "C"
      [] piece.text = "Failed Performance ({return_col}={:.2f}% < 6.5%)" -> "D"
      [] OTHER -> "none"

FailedGates(row) ==
    (IF row.gate_A_trend THEN <<>> ELSE <<"A">>)
      \o (IF row.gate_B_proximity THEN <<>> ELSE <<"B">>)
      \o (IF row.gate_C_consistency THEN <<>> ELSE <<"C">>)
      \o (IF row.gate_D_performance THEN <<>> ELSE <<"D">>)

\* C9: the reason string of a sufficient record is one clause per failed
\* gate, in the order A, B, C, D, joined by "; "; it is empty exactly when
\* gate_pass is true; every record of the failing set has a non-empty one.
C9_RejectionReasons ==
    Gated =>
      /\ \A row \in GatedRows :
           row.data_sufficient =>
             LET fg == FailedGates(row)
                 rr == row.rejection_reasons
             IN  /\ Len(rr) = IF Len(fg) = 0 THEN 0 ELSE 2 * Len(fg) - 1
                 /\ \A k \in 1..Len(fg) : ClauseGate(rr[2 * k - 1]) = fg[k]
                 /\ \A k \in 1..(Len(fg) - 1) : rr[2 * k] = Sep
                 /\ (rr = <<>>) <=> row.gate_pass
      /\ \A row \in Rows(rejected_df) : row.rejection_reasons # <<>>

\* records failing all four gates, two gates (A and C) and none
C9_Witness ==
    /\ pc = "gated"
    /\ Len(shortlist_df) >= 1
    /\ \E row \in Rows(rejected_df) : Len(row.rejection_reasons) = 7
    /\ \E row \in Rows(rejected_df) :
         row.data_sufficient /\ Len(row.rejection_reasons) = 1

\* values put in the return column that the selector does not choose
AltReturns == {NaN, Num(0), Num(100)}

\* C10: gate D of a sufficient record is true exactly when the return
\* column chosen by the selector is >= 6.5, and the other return column has
\* no influence on the gate flags, gate_pass or the reasons: the record
\* gated with any other value there comes out the same, in the same set.
C10_GateDSelected ==
    Gated =>
      /\ \A row \in GatedRows :
           row.data_sufficient =>
             (row.gate_D_performance
                <=> FGe(IF use_standard_one_year_return
                        THEN row.one_year_return_standard
                        ELSE row.one_year_return_unconventional, Rat(13, 2)))
      /\ \A i \in 1..Len(df_indicators) :
           df_indicators[i].data_sufficient =>
             \A v \in AltReturns :
               LET other == ReturnCol(~use_standard_one_year_return)
                   out == ApplyGatekeeper(
                            <<[df_indicators[i] EXCEPT ![other] = v]>>,
                            use_standard_one_year_return)
                   Erase(df) == {DropCols(row, {other}) : row \in Rows(df)}
                   Same(df) == {row \in Erase(df) :
                                  row.ticker = df_indicators[i].ticker}
               IN  /\ Erase(out[1]) = Same(shortlist_df)
                   /\ Erase(out[2]) = Same(rejected_df)

\* under the standard formula: a record passing gate D with exactly 6.5 and
\* a record failing gate D whose unconventional return is above 6.5
C10_Witness ==
    /\ pc = "gated"
    /\ use_standard_one_year_return
    /\ \E row \in Rows(shortlist_df) : row.one_year_return_standard = Rat(13, 2)
    /\ \E row \in Rows(rejected_df) :
         /\ row.data_sufficient
         /\ ~row.gate_D_performance
         /\ FGe(row.one_year_return_unconventional, Rat(13, 2))

\* C11: gate C of a sufficient record is true exactly when up_days_pct_6m
\* is strictly above 40.0; a record with exactly 40.0 fails gate C and is in
\* the failing set even when gates A, B and D hold.
C11_GateCStrict ==
    Gated =>
      /\ \A row \in GatedRows :
           row.data_sufficient =>
             (row.gate_C_consistency <=> FGt(row.up_days_pct_6m, Num(40)))
      /\ \A row \in Rows(shortlist_df) : row.up_days_pct_6m # Num(40)

\* a record with exactly 40.0 and gates A, B, D true, rejected, next to a
\* passing record
C11_Witness ==
    /\ pc = "gated"
    /\ Len(shortlist_df) >= 1
    /\ \E row \in Rows(rejected_df) :
         /\ row.data_sufficient
         /\ row.up_days_pct_6m = Num(40)
         /\ row.gate_A_trend /\ row.gate_B_proximity /\ row.gate_D_performance
         /\ ~row.gate_C_consistency

\* C12: gate B of a sufficient record computed by compute_indicators is true
\* exactly when current_price >= 0.75 * 52w_high; equality passes.
C12_GateBProximity ==
    Gated =>
      \A row \in GatedRows :
        row.data_sufficient =>
          (row.gate_B_proximity
             <=> FGe(row.current_price, FMul(Rat(3, 4), row.high_52w)))

\* a passing record with the price at exactly 75% of the high and a record
\* rejected by gate B alone
C12_Witness ==
    /\ pc = "gated"
    /\ \E row \in Rows(shortlist_df) :
         /\ FMul(Num(4), row.current_price) = FMul(Num(3), row.high_52w)
         /\ row.gate_B_proximity
    /\ \E row \in Rows(rejected_df) :
         /\ row.data_sufficient
         /\ ~row.gate_B_proximity
         /\ row.gate_A_trend /\ row.gate_C_consistency /\ row.gate_D_performance

\* C13: gate A of a sufficient record is true exactly when current_price >=
\* ema100 and ema100 >= ema200, equalities included; a record with gate A
\* false is rejected with a reason that names the trend gate.
C13_GateATrend ==
    Gated =>
      /\ \A row \in GatedRows :
           row.data_sufficient =>
             (row.gate_A_trend
                <=> (FGe(row.current_price, row.ema100)
                       /\ FGe(row.ema100, row.ema200)))
      /\ \A row \in GatedRows :
           (row.data_sufficient
              /\ (FGt(row.ema100, row.current_price)
                    \/ FGt(row.ema200, row.ema100))) =>
             /\ ~row.gate_A_trend
             /\ row \in Rows(rejected_df)
             /\ \E k \in 1..Len(row.rejection_reasons) :
                  ClauseGate(row.rejection_reasons[k]) = "A"

\* a record passing with price = ema100 = ema200, one rejected for price <
\* ema100 and one rejected for ema100 < ema200
C13_Witness ==
    /\ pc = "gated"
    /\ \E row \in Rows(shortlist_df) :
         row.current_price = row.ema100 /\ row.ema100 = row.ema200
    /\ \E row \in Rows(rejected_df) :
         row.data_sufficient /\ FGt(row.ema100, row.current_price)
    /\ \E row \in Rows(rejected_df) :
         row.data_sufficient /\ FGt(row.ema200, row.ema100)

\* a sequence without its i-th element
Without(seq, i) == SubSeq(seq, 1, i - 1) \o SubSeq(seq, i + 1, Len(seq))

\* a sequence in the opposite order
Reverse(seq) == [i \in 1..Len(seq) |-> seq[Len(seq) + 1 - i]]

\* C14: compute_indicators returns exactly one record per symbol of the
\* batch, in the order of the batch; a symbol whose computation raises gets a
\* record with data_sufficient false and a reason derived from the error; the
\* records of the other symbols are the ones the batch without the raising
\* symbol gives, and the batch processed in the opposite order gives the same
\* records.
C14_OneRecordPerSymbol ==
    pc = "compute" =>
        /\ Len(df_indicators) = Len(price_data)
        /\ \A i \in 1..Len(price_data) :
             /\ df_indicators[i].ticker = price_data[i].ticker
             /\ price_data[i].series.raises =>
                   /\ ~df_indicators[i].data_sufficient
                   /\ df_indicators[i].rejection_reasons = ErrorReason
                   /\ ComputeIndicators(Without(price_data, i))
                        = Without(df_indicators, i)
        /\ ComputeIndicators(Reverse(price_data)) = Reverse(df_indicators)

\* a batch of three whose middle symbol raises, between two symbols with
\* computed indicators
C14_Witness ==
    /\ pc = "compute"
    /\ Len(price_data) = 3
    /\ price_data[2].series.raises
    /\ df_indicators[2].rejection_reasons = ErrorReason
    /\ df_indicators[1].data_sufficient
    /\ df_indicators[3].data_sufficient

\* the columns of the record of a symbol with too little data
InsufficientCols == {"ticker", "trading_days", "data_sufficient", "rejection_reasons"}

\* C15: for every symbol processed without error, the record has
\* data_sufficient true exactly when its trading_days is at least 300, and a
\* record with data_sufficient false carries only ticker, trading_days,
\* data_sufficient and the fixed reason.
C15_SufficientIffTradingDays ==
    pc = "compute" =>
        \A i \in 1..Len(price_data) :
            ~price_data[i].series.raises =>
                /\ df_indicators[i].data_sufficient
                     = (df_indicators[i].trading_days >= MIN_TRADING_DAYS_REQUIRED)
                /\ ~df_indicators[i].data_sufficient =>
                     /\ DOMAIN df_indicators[i] = InsufficientCols
                     /\ df_indicators[i].rejection_reasons = InsufficientReason

\* C16: rank_and_select on a non-empty input with top_n below 1 does not
\* return: the state after a normal return (pc = "ranked", result_df holding
\* the returned list) is never reached with such a top_n.
C16_TopNBelowOneRaises ==
    ~(pc = "ranked" /\ top_n < 1 /\ Len(shortlist_df) >= 1)

\* C17: rank_and_select on an empty input returns an empty output, whatever
\* top_n is.
C17_EmptyInEmptyOut ==
    (pc = "ranked" /\ Len(shortlist_df) = 0) => result_df = <<>>

\* no record passed the gates and the ranking has returned, asked for at
\* least one record
C17_Witness ==
    /\ pc = "ranked"
    /\ Len(shortlist_df) = 0
    /\ Len(rejected_df) >= 1
    /\ top_n >= 1
    /\ result_df = <<>>

\* the same with top_n below 1
C17_WitnessTopNBelowOne ==
    /\ pc = "ranked"
    /\ Len(shortlist_df) = 0
    /\ top_n < 1
    /\ result_df = <<>>

Cols9m == {"return_9m", "rank_9m"}

\* the ranked list of the shortlist whose i-th record has v as return_9m
RankedWith9m(i, v) ==
    RankAndSelect([shortlist_df EXCEPT ![i] = SetCols(@, [return_9m |-> v])],
                  top_n)

\* C20: return_9m, and so rank_9m, has no influence on the result of
\* rank_and_select: with any other value, defined or not, as the return_9m of
\* one record, the result has the same records in the same order with the
\* same final_rank.
C20_Rank9mNoInfluence ==
    (pc = "ranked" /\ top_n >= 1) =>
        \A i \in 1..Len(shortlist_df) : \A v \in AltReturns :
            LET out == RankedWith9m(i, v)
            IN  /\ Len(out) = Len(result_df)
                /\ \A k \in 1..Len(out) :
                     DropCols(out[k], Cols9m) = DropCols(result_df[k], Cols9m)

(***************************************************************************)
(* apply_gatekeeper called on a frame built by hand, as the tests do       *)
(* (sample_indicators): records of compute_indicators, and records with    *)
(* insufficient data whose reason is empty or some other text.             *)
(***************************************************************************)
RecordKinds ==
    {"pass", "failC", "failAll", "short", "error", "emptyReason", "otherReason"}

RecordOfKind(ticker, kind) ==
    CASE kind = "pass" -> IndicatorRow(ticker, SeriesP1)
      [] kind = "failC" -> IndicatorRow(ticker, SeriesFC)
      [] kind = "failAll" -> IndicatorRow(ticker, SeriesU)
      [] kind = "short" -> IndicatorRow(ticker, SeriesShort)
      [] kind = "error" -> IndicatorRow(ticker, SeriesBad)
      [] kind = "emptyReason" ->
           [IndicatorRow(ticker, SeriesShort) EXCEPT !.rejection_reasons = <<>>]
      [] kind = "otherReason" ->
           [IndicatorRow(ticker, SeriesShort)
              EXCEPT !.rejection_reasons = <<Piece("Delisted")>>]

HandBuiltFrames ==
    UNION {{[i \in 1..n |-> RecordOfKind(i, f[i])] : f \in [1..n -> RecordKinds]} :
             n \in 1..MaxGateRows}

GateInit ==
    /\ pc = "compute"
    /\ price_data = <<>>
    /\ df_indicators \in HandBuiltFrames
    /\ use_standard_one_year_return = FALSE
    /\ shortlist_df = <<>>
    /\ rejected_df = <<>>
    /\ top_n = 0
    /\ result_df = <<>>
    /\ reranked_df = <<>>

GateNext == Gatekeeper

GateSpec == GateInit /\ [][GateNext]_vars

\* the record of the failing set with the ticker of the i-th input record
RejectedOf(i) ==
    CHOOSE row \in Rows(rejected_df) : row.ticker = df_indicators[i].ticker

\* no clause of the reason is the clause of a gate
NoGateClause(reason) ==
    \A k \in 1..Len(reason) : ClauseGate(reason[k]) = "none"

ReturnValues == {Num(20), Num(40), Num(50)}

ShortlistRecord(ticker, r6, r12) ==
    [ticker |-> ticker, return_6m |-> r6, return_9m |-> Num(55),
     return_12m |-> r12, gate_pass |-> TRUE]

HandBuiltShortlists ==
    UNION {{[i \in 1..n |-> ShortlistRecord(i, f[i][1], f[i][2])] :
              f \in [1..n -> ReturnValues \X ReturnValues]} :
             n \in 0..MaxShortlist}

RankInit ==
    /\ pc = "gated"
    /\ price_data = <<>>
    /\ df_indicators = <<>>
    /\ use_standard_one_year_return = FALSE
    /\ shortlist_df \in HandBuiltShortlists
    /\ rejected_df = <<>>
    /\ top_n = 0
    /\ result_df = <<>>
    /\ reranked_df = <<>>

RankNext == Rank \/ RankAgain

RankSpec == RankInit /\ [][RankNext]_vars

\* the input with v as the value of column col of its k-th record
WithValue(df, k, col, v) == [df EXCEPT ![k] = SetCols(@, [c \in {col} |-> v])]

\* C22: every record gets rank_6m = 1 + the number of input records with a
\* strictly greater return_6m and rank_12m = 1 + the number with a strictly
\* greater return_12m, so records with equal returns share the lower rank
\* number; each rank depends on its own column only: another return_12m
\* anywhere in the input changes no rank_6m, and the other way round.
C22_CompetitionRanks ==
    Ranked =>
      /\ \A row \in Rows(result_df) :
           /\ row.rank_6m = RankOver(shortlist_df, "return_6m", row.return_6m)
           /\ row.rank_12m = RankOver(shortlist_df, "return_12m", row.return_12m)
      /\ \A r1, r2 \in Rows(result_df) :
           /\ r1.return_6m = r2.return_6m => r1.rank_6m = r2.rank_6m
           /\ r1.return_12m = r2.return_12m => r1.rank_12m = r2.rank_12m
      /\ \A i, k \in 1..Len(shortlist_df) : \A v \in ReturnValues :
           /\ RankMin(WithValue(shortlist_df, k, "return_12m", v), "return_6m", i)
                = RankMin(shortlist_df, "return_6m", i)
           /\ RankMin(WithValue(shortlist_df, k, "return_6m", v), "return_12m", i)
                = RankMin(shortlist_df, "return_12m", i)

\* a full result with two records sharing rank_6m = 1 and a third one at
\* rank_6m = 3, whose rank_12m are in another order
C22_Witness ==
    /\ pc = "ranked"
    /\ Len(result_df) = 3
    /\ \E r1, r2, r3 \in Rows(result_df) :
         /\ r1.ticker # r2.ticker
         /\ r1.rank_6m = Num(1) /\ r2.rank_6m = Num(1) /\ r3.rank_6m = Num(3)
         /\ r3.rank_12m = Num(1) /\ r1.rank_12m = Num(2)

\* C23: records of the result that tie on final_rank, return_12m and
\* return_6m are in the order they had in the input (the ticker of a record
\* is its position in the input).
C23_StableSort ==
    Ranked =>
      \A i, j \in 1..Len(result_df) :
        (/\ i < j
         /\ result_df[i].final_rank = result_df[j].final_rank
         /\ result_df[i].return_12m = result_df[j].return_12m
         /\ result_df[i].return_6m = result_df[j].return_6m)
          => result_df[i].ticker < result_df[j].ticker

\* two records tied on the three keys, the first and the last of the input,
\* come out after the record that was between them
C23_Witness ==
    /\ pc = "ranked"
    /\ Len(shortlist_df) = 3
    /\ Len(result_df) = 3
    /\ result_df[1].ticker = 2
    /\ result_df[2].ticker = 1
    /\ result_df[3].ticker = 3
    /\ result_df[2].final_rank = result_df[3].final_rank
    /\ result_df[2].return_12m = result_df[3].return_12m
    /\ result_df[2].return_6m = result_df[3].return_6m

(***************************************************************************)
(* compute_indicators on price rows.  The rows of one ticker are the       *)
(* adjusted closes and the closes left by dropna(), oldest first; what     *)
(* compute_indicators reads by position is read from them.  The two        *)
(* averages stay values given with the rows.                               *)
(***************************************************************************)
\* series.iloc[k] for a negative k: the -k-th observation from the end
ILoc(series, k) == series[Len(series) + k + 1]

\* series.iloc[-n:]
ILocFrom(series, n) == SubSeq(series, Len(series) - n + 1, Len(series))

\* series.max()
SeqMax(series) ==
    CHOOSE x \in {series[i] : i \in 1..Len(series)} :
        \A i \in 1..Len(series) : FGe(x, series[i])

\* the increases counted over the whole series, the pair that enters the
\* window included
UpDays_diffBeforeSlice(close) ==
    Cardinality({i \in (Len(close) - TRADING_DAYS_6M + 1)..Len(close) :
                    i > 1 /\ FGt(close[i], close[i - 1])})

\* (close.iloc[-126:].diff() > 0).sum(): the first diff of the window is NaN
UpDays(close) ==
    LET last_6m == ILocFrom(close, TRADING_DAYS_6M)
    IN  Cardinality({i \in 2..Len(last_6m) : FGt(last_6m[i], last_6m[i - 1])})

\* the step with the decay factor taken as 2 / span
EwmStep_spanOnly(prev, x, span) ==
    Rat(2 * x[1] * prev[2] + (span - 2) * prev[1] * x[2],
        span * prev[2] * x[2])

\* one step of the mean: a * x + (1 - a) * prev with a = 2 / (span + 1), on
\* the common denominator
EwmStep(prev, x, span) ==
    Rat(2 * x[1] * prev[2] + (span - 1) * prev[1] * x[2],
        (span + 1) * prev[2] * x[2])

\* the mean after observation to, from its value seed after observation from
RECURSIVE EwmSteps(_, _, _, _, _)
EwmSteps(series, span, from, to, seed) ==
    IF to = from THEN seed
    ELSE EwmStep(EwmSteps(series, span, from, to - 1, seed), series[to], span)

\* series.ewm(span=span, adjust=False).mean().iloc[i - 1]: the mean starts
\* at the first observation; worked out in stretches of 12 observations, each
\* from the value at the end of the stretch before
RECURSIVE EwmMeanAt(_, _, _)
EwmMeanAt(series, span, i) ==
    IF i = 1 THEN series[1]
    ELSE LET from == IF i > 12 THEN i - 12 ELSE 1
         IN  CHOOSE mean \in {EwmSteps(series, span, from, i, seed) :
                                 seed \in {EwmMeanAt(series, span, from)}} : TRUE

EwmMean(series, span) == EwmMeanAt(series, span, Len(series))

\* the values compute_indicators reads from the rows of one ticker
ReadSeries(raw) ==
    LET adj_close == raw.adj_close
        close == raw.close
    IN  [raises |-> FALSE,
         trading_days |-> raw.rows,
         n_adj |-> Len(adj_close),
         n_close |-> Len(close),
         last |-> ILoc(adj_close, -1),
         ewm100 |-> raw.ewm100,
         ewm200 |-> raw.ewm200,
         rolling_max |-> IF Len(adj_close) >= TRADING_DAYS_12M
                         THEN SeqMax(ILocFrom(adj_close, TRADING_DAYS_12M))
                         ELSE NaN,
         series_max |-> SeqMax(adj_close),
         up_days |-> IF Len(close) >= TRADING_DAYS_6M THEN UpDays(close) ELSE 0,
         iloc_126 |-> IF Len(adj_close) >= TRADING_DAYS_6M
                      THEN ILoc(adj_close, -TRADING_DAYS_6M) ELSE NaN,
         iloc_189 |-> IF Len(adj_close) >= TRADING_DAYS_9M
                      THEN ILoc(adj_close, -TRADING_DAYS_9M) ELSE NaN,
         iloc_252 |-> IF Len(adj_close) >= TRADING_DAYS_12M
                      THEN ILoc(adj_close, -TRADING_DAYS_12M) ELSE NaN]

\* adjusted closes rising by one a day: the price tells the position
RisingPrices(n) == [i \in 1..n |-> Num(1000 + i)]

\* n closes, rising up to the trailing 126, which have up strict increases:
\* the first ones of the window, or the last ones
Closes(n, up, atEnd) ==
    [i \in 1..n |->
        LET j == i - (n - TRADING_DAYS_6M) - 1
            flat == (TRADING_DAYS_6M - 1) - up
        IN  IF j < 0 THEN Num(i)
            ELSE IF atEnd THEN Num(n + (IF j > flat THEN j - flat ELSE 0))
            ELSE Num(n + (IF j < up THEN j ELSE up))]

AdjLens == 299..(MIN_TRADING_DAYS_REQUIRED + MaxExtraRows)

CloseLens == {125, 126, 127}

UpCounts == {0, 50, 51, 125}

\* rising adjusted closes: the averages are given, not computed
RisingRaws ==
    {[rows |-> IF n < MIN_TRADING_DAYS_REQUIRED
               THEN MIN_TRADING_DAYS_REQUIRED ELSE n,
      adj_close |-> RisingPrices(n),
      close |-> Closes(c, up, atEnd),
      ewm100 |-> Num(1200), ewm200 |-> Num(1100)] :
        n \in AdjLens, c \in CloseLens, up \in UpCounts, atEnd \in BOOLEAN}

EmaPrices == {Num(1), Num(2), Num(3)}

\* 300 adjusted closes, all at 2 but the latest ones
FlatThenVarying ==
    UNION {{[i \in 1..MIN_TRADING_DAYS_REQUIRED |->
                IF i <= MIN_TRADING_DAYS_REQUIRED - k THEN Num(2)
                ELSE f[i - (MIN_TRADING_DAYS_REQUIRED - k)]] :
              f \in [1..k -> EmaPrices]} : k \in 1..MaxVarying}

\* adjusted closes flat but for the latest ones: the averages are computed
FlatRaws ==
    {[rows |-> Len(adj_close),
      adj_close |-> adj_close,
      close |-> Closes(TRADING_DAYS_6M, 51, FALSE),
      ewm100 |-> EwmMean(adj_close, 100),
      ewm200 |-> EwmMean(adj_close, 200)] : adj_close \in FlatThenVarying}

RawSet == RisingRaws \cup FlatRaws

\* the loop of compute_indicators on the price rows of a batch of one ticker
ComputeRawTicker ==
    /\ pc = "compute"
    /\ price_data = <<>>
    /\ \E raw \in RawSet :
         LET ticker == Len(price_data) + 1
             s == ReadSeries(raw)
         IN  /\ price_data' = Append(price_data,
                                     [ticker |-> ticker, series |-> s,
                                      adj_close |-> raw.adj_close,
                                      close |-> raw.close])
             /\ df_indicators' = AppendResult(df_indicators, ticker, s)
    /\ UNCHANGED <<pc, use_standard_one_year_return, shortlist_df, rejected_df,
                   top_n, result_df, reranked_df>>

RawNext == ComputeRawTicker \/ Gatekeeper

RawSpec == Init /\ [][RawNext]_vars

\* the i-th record was computed from price rows with data enough
Computed(i) == df_indicators[i].data_sufficient

\* the adjusted close with n observations strictly after it
NObservationsBefore(adj_close, n) ==
    IF Len(adj_close) >= n + 1 THEN adj_close[Len(adj_close) - n] ELSE NaN

\* C24: for N in {126, 189, 252} the reference price of the N-period return
\* of a computed record is the adjusted close that has exactly N
\* observations after it, and is undefined when the series has fewer than
\* N + 1 adjusted closes.
C24_PriceNObservationsBefore ==
    pc = "compute" =>
      \A i \in 1..Len(price_data) :
        Computed(i) =>
          /\ df_indicators[i].price_6m_ago
               = NObservationsBefore(price_data[i].adj_close, TRADING_DAYS_6M)
          /\ df_indicators[i].price_9m_ago
               = NObservationsBefore(price_data[i].adj_close, TRADING_DAYS_9M)
          /\ df_indicators[i].price_12m_ago
               = NObservationsBefore(price_data[i].adj_close, TRADING_DAYS_12M)

\* the strict increases among the 125 adjacent pairs of the trailing 126
\* closes
UpPairs(close) ==
    LET first == Len(close) - TRADING_DAYS_6M + 1
    IN  Cardinality({k \in 1..(TRADING_DAYS_6M - 1) :
                        FGt(close[first + k], close[first + k - 1])})

\* C25: up_days_pct_6m of a computed record is the number of strict
\* increases among the 125 adjacent pairs of the trailing 126 closes, over
\* 125, times 100, and is undefined with fewer than 126 closes; once gated,
\* the record has gate C true exactly when there are 126 closes and at least
\* 51 of the 125 pairs are increases.
C25_UpDaysPct ==
    \A i \in 1..Len(price_data) :
      Computed(i) =>
        LET close == price_data[i].close
            enough == Len(close) >= TRADING_DAYS_6M
        IN  /\ df_indicators[i].up_days_pct_6m =
                 IF enough THEN Rat(UpPairs(close) * 100, TRADING_DAYS_6M - 1)
                 ELSE NaN
            /\ pc = "gated" =>
                 \A row \in GatedRows :
                   row.ticker = df_indicators[i].ticker =>
                     (row.gate_C_consistency <=> (enough /\ UpPairs(close) >= 51))

\* a gated record computed from 127 closes with 50 increases in the window,
\* after an increase into the window: 40.0 exactly, gate C false
C25_Witness ==
    /\ pc = "gated"
    /\ Len(price_data) >= 1
    /\ Len(price_data[1].close) = 127
    /\ UpPairs(price_data[1].close) = 50
    /\ FGt(price_data[1].close[2], price_data[1].close[1])
    /\ \E row \in Rows(rejected_df) :
         /\ row.data_sufficient
         /\ row.up_days_pct_6m = Num(40)
         /\ ~row.gate_C_consistency

\* the clauses of a reason, without the separators
Clauses(reason) == {reason[k] : k \in {j \in 1..Len(reason) : reason[j] # Sep}}

\* printed is v to the nearest multiple of 1/scale ("nan" for NaN)
RoundedTo(printed, v, scale) ==
    IF IsNaN(v) THEN IsNaN(printed)
    ELSE /\ ~IsNaN(printed)
         /\ scale % printed[2] = 0
         /\ FGe(Rat(1, 2 * scale), FSub(printed, v))
         /\ FGe(Rat(1, 2 * scale), FSub(v, printed))

\* C26 as stated: every clause of the reason of a rejected sufficient
\* record, for each of the gates A, B, C and D, carries the value of the
\* record that made the gate fail.
C26_EveryClauseHasValue ==
    Gated =>
      \A row \in Rows(rejected_df) :
        row.data_sufficient =>
          \A piece \in Clauses(row.rejection_reasons) : "value" \in DOMAIN piece

\* C26 amended: the clause of gate C carries up_days_pct_6m to one decimal
\* and the clause of gate D the name of the selected return column and its
\* value to two decimals; the clauses of gates A and B are fixed texts that
\* carry no value of the record.
C26_ClauseValuesCAndD ==
    Gated =>
      \A row \in Rows(rejected_df) :
        row.data_sufficient =>
          \A piece \in Clauses(row.rejection_reasons) :
            /\ ClauseGate(piece) \in {"A", "B"} => DOMAIN piece = {"text"}
            /\ ClauseGate(piece) = "C" =>
                 /\ "value" \in DOMAIN piece
                 /\ RoundedTo(piece.value, row.up_days_pct_6m, 10)
            /\ ClauseGate(piece) = "D" =>
                 /\ "value" \in DOMAIN piece
                 /\ piece.col = ReturnCol(use_standard_one_year_return)
                 /\ RoundedTo(piece.value,
                              row[ReturnCol(use_standard_one_year_return)], 100)

\* a record rejected by the four gates under the standard formula, whose
\* return is not a multiple of 0.01, and so printed rounded
C26_Witness ==
    /\ pc = "gated"
    /\ use_standard_one_year_return
    /\ \E row \in Rows(rejected_df) :
         /\ row.data_sufficient
         /\ Len(row.rejection_reasons) = 7
         /\ row.rejection_reasons[7].value # row.one_year_return_standard
         /\ row.rejection_reasons[5].value = Num(40)

\* C27: every computed record has one_year_return_unconventional =
\* current_price / (price_12m_ago - 1) * 100, undefined when
\* price_12m_ago - 1 is 0 or price_12m_ago is undefined, and
\* one_year_return_standard = return_12m; both columns are on the record,
\* whichever of them the selector takes later.
C27_OneYearReturns ==
    pc = "compute" =>
      \A row \in Rows(df_indicators) :
        row.data_sufficient =>
          /\ {"one_year_return_unconventional", "one_year_return_standard"}
               \subseteq DOMAIN row
          /\ row.one_year_return_standard = row.return_12m
          /\ row.one_year_return_unconventional =
               IF IsNaN(row.price_12m_ago) \/ row.price_12m_ago = Num(1)
               THEN NaN
               ELSE Rat(row.current_price[1] * row.price_12m_ago[2] * 100,
                        row.current_price[2]
                          * (row.price_12m_ago[1] - row.price_12m_ago[2]))

\* computed records with price_12m_ago = 1, so no unconventional return but
\* a standard one, and with price_12m_ago = 201, so 106.5 against 5.97
C27_Witness ==
    /\ pc = "compute"
    /\ \E row \in Rows(df_indicators) :
         /\ row.data_sufficient
         /\ row.price_12m_ago = Num(1)
         /\ IsNaN(row.one_year_return_unconventional)
         /\ row.one_year_return_standard = Num(21200)
    /\ \E row \in Rows(df_indicators) :
         /\ row.data_sufficient
         /\ row.price_12m_ago = Num(201)
         /\ row.one_year_return_unconventional = Rat(213, 2)
         /\ row.one_year_return_standard = Rat(400, 67)

\* the adjusted closes are at one price but for the last k of them
FlatBeforeLast(adj_close, k) ==
    \A i \in 1..(Len(adj_close) - k) : adj_close[i] = adj_close[1]

\* a^k for small k
RECURSIVE Power(_, _)
Power(a, k) == IF k = 0 THEN 1 ELSE a * Power(a, k - 1)

\* the weighted sum the recurrence ema[0] = price[0], ema[i] = a * price[i]
\* + (1 - a) * ema[i-1], a = 2 / (span + 1), comes to when the prices before
\* the last k are all p: (1 - a)^k * p + the sum over the last k prices of
\* a * (1 - a)^(distance from the end) * price
RECURSIVE LastTerms(_, _, _)
LastTerms(adj_close, span, k) ==
    IF k = 0 THEN 0
    ELSE 2 * Power(span - 1, k - 1) * Power(span + 1, MaxVarying + 1 - k)
           * adj_close[Len(adj_close) - k + 1][1]
         + LastTerms(adj_close, span, k - 1)

RecurrenceValue(adj_close, span) ==
    LET k == MaxVarying + 1
    IN  Rat(Power(span - 1, k) * adj_close[1][1] + LastTerms(adj_close, span, k),
            Power(span + 1, k))

\* C28: the ema100 and ema200 of a computed record are the last value of
\* the recurrence ema[0] = price[0], ema[i] = a * price[i] + (1 - a) *
\* ema[i-1] over the adjusted closes, a = 2/101 and 2/201; they lie between
\* the lowest and the highest adjusted close and are positive.
C28_EmaRecurrence ==
    pc = "compute" =>
      \A i \in 1..Len(price_data) :
        (Computed(i) /\ FlatBeforeLast(price_data[i].adj_close, MaxVarying + 1)) =>
          LET adj_close == price_data[i].adj_close
              row == df_indicators[i]
          IN  /\ row.ema100 = RecurrenceValue(adj_close, 100)
              /\ row.ema200 = RecurrenceValue(adj_close, 200)
              /\ \A span \in {"ema100", "ema200"} :
                   /\ FGt(row[span], Num(0))
                   /\ FGe(SeqMax(adj_close), row[span])
                   /\ \E j \in 1..Len(adj_close) : FGe(row[span], adj_close[j])

\* a computed record of 300 adjusted closes whose last one is above the
\* others: both averages strictly between the two prices, ema100 the higher
C28_Witness ==
    /\ pc = "compute"
    /\ Len(price_data) >= 1
    /\ Computed(1)
    /\ FlatBeforeLast(price_data[1].adj_close, 1)
    /\ price_data[1].adj_close[1] = Num(2)
    /\ df_indicators[1].current_price = Num(3)
    /\ df_indicators[1].ema100 = Rat(204, 101)
    /\ df_indicators[1].ema200 = Rat(404, 201)

\* record x is at least as good as y on both returns and better on one
Dominates(x, y) ==
    /\ FGe(x.return_6m, y.return_6m)
    /\ FGe(x.return_12m, y.return_12m)
    /\ FGt(x.return_6m, y.return_6m) \/ FGt(x.return_12m, y.return_12m)

\* the place of the record of that ticker in the result, 0 if it is not there
PlaceOf(ticker) ==
    IF \E k \in 1..Len(result_df) : result_df[k].ticker = ticker
    THEN CHOOSE k \in 1..Len(result_df) : result_df[k].ticker = ticker
    ELSE 0

\* C29: when an input record X dominates an input record Y (both returns at
\* least as high, one strictly higher), X has a strictly smaller final_rank
\* than Y, and if Y is in the result then X is in it too, before Y.
C29_Dominance ==
    Ranked =>
      \A a, b \in 1..Len(shortlist_df) :
        Dominates(shortlist_df[a], shortlist_df[b]) =>
          /\ FGt(RankRow(shortlist_df, b).final_rank,
                 RankRow(shortlist_df, a).final_rank)
          /\ PlaceOf(shortlist_df[b].ticker) # 0 =>
               /\ PlaceOf(shortlist_df[a].ticker) # 0
               /\ PlaceOf(shortlist_df[a].ticker) < PlaceOf(shortlist_df[b].ticker)

\* a truncated result that holds a dominating record given last in the
\* input and not the record it dominates, which has its 6-month return
C29_Witness ==
    /\ pc = "ranked"
    /\ Len(shortlist_df) = 3
    /\ top_n = 2
    /\ Dominates(shortlist_df[3], shortlist_df[1])
    /\ shortlist_df[3].return_6m = shortlist_df[1].return_6m
    /\ PlaceOf(3) = 1
    /\ PlaceOf(1) = 0

\* C30: two input records with the same final_rank and the same return_12m
\* have the same return_6m, so the third sort key never decides and records
\* tied on final_rank and return_12m stay in input order.
C30_SecondTieBreakIdle ==
    Ranked =>
      /\ \A a, b \in 1..Len(shortlist_df) :
           (/\ RankRow(shortlist_df, a).final_rank = RankRow(shortlist_df, b).final_rank
            /\ shortlist_df[a].return_12m = shortlist_df[b].return_12m)
             => shortlist_df[a].return_6m = shortlist_df[b].return_6m
      /\ \A i, j \in 1..Len(result_df) :
           (/\ i < j
            /\ result_df[i].final_rank = result_df[j].final_rank
            /\ result_df[i].return_12m = result_df[j].return_12m)
             => result_df[i].ticker < result_df[j].ticker

\* records tied on final_rank and return_12m, in the result in input order,
\* next to a record with their return_12m, another return_6m and so another
\* final_rank
C30_Witness ==
    /\ pc = "ranked"
    /\ Len(result_df) = 3
    /\ \E i, j, k \in 1..Len(result_df) :
         /\ i < j
         /\ result_df[i].final_rank = result_df[j].final_rank
         /\ result_df[i].return_12m = result_df[j].return_12m
         /\ result_df[k].return_12m = result_df[i].return_12m
         /\ result_df[k].return_6m # result_df[i].return_6m
         /\ result_df[k].final_rank # result_df[i].final_rank

====
